---- MODULE Spec2Model ----
(***************************************************************************)
(* Model of the grid-based metadynamics bias potential                     *)
(* (ensembler/potentials/biased_potentials/biasOneD.py,                    *)
(* class metadynamicsPotential).                                           *)
(*                                                                         *)
(* Coordinates, energies and forces are floats in the source.  Here they   *)
(* are integers: positions are grid ticks and the grids that are drawn are *)
(* those whose half bin width is a whole number of ticks, so that the      *)
(* arithmetic of __init__ and of _find_nearest is exact.  numpy values     *)
(* are records [kind, vals]: kind "scalar" is a Python number or a 0-d     *)
(* array, kind "array" a 1-d array or a list, any other kind is the name   *)
(* of the exception that was raised.                                       *)
(***************************************************************************)
EXTENDS Integers, Sequences, FiniteSets

VARIABLES pc, n_trigger, amplitude, sigma, bin_centers, bias_grid_energy,
          bias_grid_force, current_n, finished_steps,
          call_count, fired_calls, deposited, op, arg, result,
          grid_args, threads, legacy, orig, system, lookup

obj == <<n_trigger, amplitude, sigma, bin_centers, bias_grid_energy,
         bias_grid_force, current_n, finished_steps>>

vars == <<pc, n_trigger, amplitude, sigma, bin_centers, bias_grid_energy,
          bias_grid_force, current_n, finished_steps,
          call_count, fired_calls, deposited, op, arg, result,
          grid_args, threads, legacy, orig, system, lookup>>

\* the grid-mode potential with its history and its last operation
meta == <<pc, obj, call_count, fired_calls, deposited, op, arg, result,
          grid_args>>

\* the state that belongs to the other objects of the model: the callers
\* inside check_for_metastep, the potentials of the sympy classes, the
\* unbiased potential they share, the perturbed system, and the grid over
\* doubles with its last lookup
ext == <<threads, legacy, orig, system, lookup>>

(***************************************************************************)
(* Bounds.                                                                 *)
(***************************************************************************)
MaxCalls == 6

MaxTrigger == 3

MaxBins == 4

MaxLen == 2

(***************************************************************************)
(* Inputs.                                                                 *)
(***************************************************************************)
\* n_trigger values handed to the constructor (it accepts any integer)
NTriggers == {-2, 0} \cup (1 .. MaxTrigger)

\* sigma values handed to the constructor (0 is left out: the kernel of
\* width 0 divides by zero inside gaussPotential, which is not modelled)
Sigmas == {-1, 2}

Amplitudes == {1, 2}

\* (bias_grid_min, bias_grid_max, numbins) with a whole half bin width
GridConfigs ==
    {g \in [lo : {0}, hi : {8, 10}, numbins : 1 .. MaxBins] :
        g.hi > g.lo /\ (g.hi - g.lo) % (2 * g.numbins) = 0}

\* grid arguments of any kind: inverted and empty ranges, numbins <= 0
AnyGridConfigs ==
    {g \in [lo : {0}, hi : {-8, 0, 4, 8}, numbins : -1 .. MaxBins] :
        g.numbins > 0 => (g.hi - g.lo) % (2 * g.numbins) = 0}

\* positions handed to check_for_metastep
StepPositions == {1, 4, 9}

\* positions handed to ene, force and _find_nearest as scalars
QueryPositions == {-1000, 0, 2, 3, 4, 9, 1000}

\* positions that occur in the sequences handed to ene and force
SeqPositions == {4, 9}

(***************************************************************************)
(* numpy values.                                                           *)
(***************************************************************************)
Scalar(v) == [kind |-> "scalar", vals |-> <<v>>]

Array(s) == [kind |-> "array", vals |-> s]

Raised(e) == [kind |-> e, vals |-> <<>>]

NoValue == [kind |-> "none", vals |-> <<>>]

IsValue(a) == a.kind \in {"scalar", "array"}

\* np.squeeze left out: a sequence of one position keeps its axis
np_squeeze_kept(a) == a

\* np.squeeze: every axis of length 1 is removed
np_squeeze(a) ==
    IF a.kind = "array" /\ Len(a.vals) = 1 THEN Scalar(a.vals[1]) ELSE a

\* a + b of two numpy values, with broadcasting of scalars and of
\* arrays of length 1
np_add(a, b) ==
    IF ~IsValue(a) THEN a
    ELSE IF ~IsValue(b) THEN b
    ELSE IF a.kind = "scalar" /\ b.kind = "scalar"
         THEN Scalar(a.vals[1] + b.vals[1])
    ELSE LET la == Len(a.vals)
             lb == Len(b.vals)
             n  == IF la = 1 THEN lb ELSE la
         IN  IF la # lb /\ la # 1 /\ lb # 1
             THEN Raised("ValueError")
             ELSE Array([i \in 1 .. n |->
                          a.vals[IF la = 1 THEN 1 ELSE i]
                        + b.vals[IF lb = 1 THEN 1 ELSE i]])

\* a[i] of a Python sequence: 0-based, negative indices count from the end
InRange(a, i) == i >= -Len(a) /\ i < Len(a)

getitem(a, i) == a[IF i >= 0 THEN i + 1 ELSE Len(a) + i + 1]

\* a % b of Python integers, b # 0: the result has the sign of b
PyMod(a, b) == IF b > 0 THEN a % b ELSE -((-a) % (-b))

Abs(x) == IF x < 0 THEN -x ELSE x

\* np.linspace(start, stop, num)
linspace(start, stop, num) ==
    [i \in 1 .. num |->
        IF num = 1 THEN start
        ELSE start + ((i - 1) * (stop - start)) \div (num - 1)]

\* np.ones in the place of np.zeros
zeros_ones(num) == [i \in 1 .. num |-> 1]

\* np.zeros(num)
zeros(num) == [i \in 1 .. num |-> 0]

(***************************************************************************)
(* The collaborators of the class that are not part of its source file:    *)
(* the Gaussian kernel (gaussPotential) and the energy and derivative of   *)
(* the unbiased potential (_calculate_energies, _calculate_dVdpos of       *)
(* _potential1DCls).  Energies are in units of 1/100 of the amplitude.     *)
(***************************************************************************)
\* 100 * exp(-d^2 / (2 sigma^2)), rounded
GaussShape(s, d) ==
    IF s * s = 1
    THEN (IF d = 0 THEN 100 ELSE IF d = 1 THEN 61 ELSE IF d = 2 THEN 14
          ELSE IF d = 3 THEN 1 ELSE 0)
    ELSE (IF d = 0 THEN 100 ELSE IF d = 1 THEN 88 ELSE IF d = 2 THEN 61
          ELSE IF d = 3 THEN 32 ELSE IF d = 4 THEN 14 ELSE IF d = 5 THEN 4
          ELSE IF d = 6 THEN 1 ELSE 0)

\* 100 * d / sigma^2 * exp(-d^2 / (2 sigma^2)), rounded
GaussSlope(s, d) ==
    IF s * s = 1
    THEN (IF d = 1 THEN 61 ELSE IF d = 2 THEN 27 ELSE IF d = 3 THEN 3 ELSE 0)
    ELSE (IF d = 1 THEN 22 ELSE IF d = 2 THEN 30 ELSE IF d = 3 THEN 24
          ELSE IF d = 4 THEN 14 ELSE IF d = 5 THEN 5 ELSE IF d = 6 THEN 2
          ELSE 0)

\* gaussPotential(A, mu, sigma).V at r
gaussV(A, mu, s, r) == A * GaussShape(s, Abs(r - mu))

\* gaussPotential(A, mu, sigma).dVdpos at r
gaussdVdpos(A, mu, s, r) ==
    IF r >= mu THEN -(A * GaussSlope(s, r - mu)) ELSE A * GaussSlope(s, mu - r)

\* energy and derivative of the unbiased potential at one position
origV(x) == 50 * (x - 4) * (x - 4)

origdVdpos(x) == 100 * (x - 4)

_calculate_energies(a) ==
    IF IsValue(a)
    THEN [a EXCEPT !.vals = [i \in 1 .. Len(a.vals) |-> origV(a.vals[i])]]
    ELSE a

_calculate_dVdpos(a) ==
    IF IsValue(a)
    THEN [a EXCEPT !.vals = [i \in 1 .. Len(a.vals) |-> origdVdpos(a.vals[i])]]
    ELSE a

(***************************************************************************)
(* metadynamicsPotential.                                                  *)
(***************************************************************************)
\* np.searchsorted(array, value, side="left"): numpy's binary search
RECURSIVE binsearch_left(_, _, _, _)
binsearch_left(array, value, lo, hi) ==
    IF lo >= hi THEN lo
    ELSE LET mid == lo + (hi - lo) \div 2
         IN  IF getitem(array, mid) < value
             THEN binsearch_left(array, value, mid + 1, hi)
             ELSE binsearch_left(array, value, lo, mid)

searchsorted(array, value) == binsearch_left(array, value, 0, Len(array))

\* _find_nearest with "<=" for "<": a tie goes to the lower neighbour
_find_nearest_tie_low(array, value) ==
    LET idx == binsearch_left(array, value, 0, Len(array))
    IN  IF idx > 0 /\ (\/ idx = Len(array)
                       \/ Abs(value - getitem(array, idx - 1))
                            <= Abs(value - getitem(array, idx)))
        THEN idx - 1
        ELSE idx

\* _find_nearest that returns the insertion index on both branches
_find_nearest_no_step_back(array, value) ==
    binsearch_left(array, value, 0, Len(array))

\* _find_nearest for one number: the index (0-based) that is returned
_find_nearest(array, value) ==
    LET idx == searchsorted(array, value)
    IN  IF idx > 0 /\ (\/ idx = Len(array)
                       \/ Abs(value - getitem(array, idx - 1))
                            < Abs(value - getitem(array, idx)))
        THEN idx - 1
        ELSE idx

\* _find_nearest for a numpy value: for a sequence, searchsorted returns an
\* array of indices and "idx > 0 and ..." asks for the truth value of an
\* array, which numpy refuses for more than one element
_find_nearest_of(array, value) ==
    IF value.kind = "scalar"
    THEN Scalar(_find_nearest(array, value.vals[1]))
    ELSE IF Len(value.vals) = 1
    THEN Array(<<_find_nearest(array, value.vals[1])>>)
    ELSE Raised("ValueError")

\* __init__ with the grid bounds themselves as first and last center
init_bin_centers_on_bounds(g) == linspace(g.lo, g.hi, g.numbins)

\* __init__: the bin centers
init_bin_centers(g) ==
    LET bin_half == (g.hi - g.lo) \div (2 * g.numbins)
    IN  linspace(g.lo + bin_half, g.hi - bin_half, g.numbins)

\* the test of check_for_metastep made on the incremented counter
metastep_due_early(cur, n) == PyMod(cur + 1, n) = 0

\* check_for_metastep: the test that decides whether the bias is added
metastep_due(cur, n) == PyMod(cur, n) = 0

\* _update_potential that forgets the force grid
_update_potential_energy_only(grid_energy, grid_force, centers, A, s, curr_position) ==
    [energy |-> [i \in 1 .. Len(grid_energy) |->
                    grid_energy[i] + gaussV(A, curr_position, s, centers[i])],
     force  |-> grid_force]

\* _update_potential that stores the new Gaussian instead of adding it
_update_potential_overwrite(grid_energy, grid_force, centers, A, s, curr_position) ==
    [energy |-> [i \in 1 .. Len(centers) |-> gaussV(A, curr_position, s, centers[i])],
     force  |-> [i \in 1 .. Len(centers) |-> gaussdVdpos(A, curr_position, s, centers[i])]]

\* _update_potential: the two grids after a Gaussian centered on
\* curr_position has been added
_update_potential(grid_energy, grid_force, centers, A, s, curr_position) ==
    LET new_bias_bin_energy ==
            [i \in 1 .. Len(centers) |-> gaussV(A, curr_position, s, centers[i])]
        new_bias_bin_force ==
            [i \in 1 .. Len(centers) |-> gaussdVdpos(A, curr_position, s, centers[i])]
    IN  [energy |-> [i \in 1 .. Len(grid_energy) |->
                        grid_energy[i] + new_bias_bin_energy[i]],
         force  |-> [i \in 1 .. Len(grid_force) |->
                        grid_force[i] + new_bias_bin_force[i]]]

\* ene that looks up the bin of the first position for every entry, as
\* a single lookup for the whole sequence would
ene_one_bin(centers, grid_energy, positions) ==
    LET current_bin == _find_nearest(centers, positions.vals[1])
    IN  np_squeeze(np_add(_calculate_energies(np_squeeze(positions)),
                          Scalar(getitem(grid_energy, current_bin))))

\* ene(positions)
ene(centers, grid_energy, positions) ==
    IF positions.kind = "scalar"
    THEN LET current_bin == _find_nearest(centers, positions.vals[1])
         IN  IF ~InRange(grid_energy, current_bin)
             THEN Raised("IndexError")
             ELSE np_squeeze(np_add(_calculate_energies(np_squeeze(positions)),
                                    Scalar(getitem(grid_energy, current_bin))))
    ELSE LET bins == [i \in 1 .. Len(positions.vals) |->
                         _find_nearest(centers, positions.vals[i])]
         IN  IF \E i \in 1 .. Len(bins) : ~InRange(grid_energy, bins[i])
             THEN Raised("IndexError")
             ELSE LET bias_list == [i \in 1 .. Len(bins) |->
                                       getitem(grid_energy, bins[i])]
                  IN  np_squeeze(np_add(_calculate_energies(np_squeeze(positions)),
                                        Array(bias_list)))

\* force(positions)
force(centers, grid_force, positions) ==
    LET current_bin == _find_nearest_of(centers, positions)
    IN  IF ~IsValue(current_bin) THEN current_bin
        ELSE IF \E i \in 1 .. Len(current_bin.vals) :
                    ~InRange(grid_force, current_bin.vals[i])
        THEN Raised("IndexError")
        ELSE np_squeeze(np_add(
                 _calculate_dVdpos(np_squeeze(positions)),
                 [current_bin EXCEPT !.vals =
                     [i \in 1 .. Len(current_bin.vals) |->
                         getitem(grid_force, current_bin.vals[i])]]))

(***************************************************************************)
(* IEEE-754 double precision, as far as the grid and its lookup need it.   *)
(* A natural number is the sequence of its digits to the base 2^15, lowest *)
(* first, without leading zeros; a double is s * m * 2^e with m odd and    *)
(* below 2^53, or zero.  Every operation computes the exact result and     *)
(* rounds it to 53 binary digits, ties to even.  Subnormals, infinities    *)
(* and nan do not occur for the values used.                               *)
(***************************************************************************)
Precision == 53

RECURSIVE Pow2(_)
Pow2(k) == IF k = 0 THEN 1 ELSE 2 * Pow2(k - 1)

\* the base of the digits
Base == Pow2(15)

RECURSIVE Trim(_)
Trim(b) ==
    IF b = <<>> \/ b[Len(b)] # 0 THEN b ELSE Trim(SubSeq(b, 1, Len(b) - 1))

RECURSIVE FromNat(_)
FromNat(n) == IF n = 0 THEN <<>> ELSE <<n % Base>> \o FromNat(n \div Base)

RECURSIVE ToNat(_)
ToNat(b) == IF b = <<>> THEN 0 ELSE Head(b) + Base * ToNat(Tail(b))

Low(b) == IF b = <<>> THEN 0 ELSE Head(b)

Rest(b) == IF b = <<>> THEN b ELSE Tail(b)

RECURSIVE AddLimbs(_, _, _)
AddLimbs(a, b, carry) ==
    IF a = <<>> /\ b = <<>>
    THEN IF carry = 1 THEN <<1>> ELSE <<>>
    ELSE LET s == Low(a) + Low(b) + carry
         IN  <<s % Base>> \o AddLimbs(Rest(a), Rest(b), s \div Base)

BAdd(a, b) == AddLimbs(a, b, 0)

RECURSIVE SubLimbs(_, _, _)
SubLimbs(a, b, borrow) ==
    IF a = <<>> THEN <<>>
    ELSE LET d == Low(a) - Low(b) - borrow
         IN  <<d % Base>> \o SubLimbs(Rest(a), Rest(b), IF d < 0 THEN 1 ELSE 0)

\* a - b for a >= b
BSub(a, b) == Trim(SubLimbs(a, b, 0))

\* -1, 0, 1 for a < b, a = b, a > b
RECURSIVE BCmp(_, _)
BCmp(a, b) ==
    IF Len(a) # Len(b) THEN (IF Len(a) < Len(b) THEN -1 ELSE 1)
    ELSE IF a = <<>> THEN 0
    ELSE IF a[Len(a)] # b[Len(b)] THEN (IF a[Len(a)] < b[Len(b)] THEN -1 ELSE 1)
    ELSE BCmp(Trim(SubSeq(a, 1, Len(a) - 1)), Trim(SubSeq(b, 1, Len(b) - 1)))

\* a * d for one digit d
RECURSIVE MulLimbs(_, _, _)
MulLimbs(a, d, carry) ==
    IF a = <<>> THEN FromNat(carry)
    ELSE LET p == Head(a) * d + carry
         IN  <<p % Base>> \o MulLimbs(Tail(a), d, p \div Base)

BMulSmall(a, d) == Trim(MulLimbs(a, d, 0))

\* a * Base^n
ShlLimbs(a, n) == IF a = <<>> THEN a ELSE [i \in 1 .. n |-> 0] \o a

RECURSIVE BMul(_, _)
BMul(a, b) ==
    IF a = <<>> \/ b = <<>> THEN <<>>
    ELSE BAdd(BMulSmall(a, Head(b)), ShlLimbs(BMul(a, Tail(b)), 1))

\* a * 2^k
Shl(a, k) == ShlLimbs(BMulSmall(a, Pow2(k % 15)), k \div 15)

\* floor(a / d) for one digit d > 0, from the highest digit down
RECURSIVE DivLimbs(_, _, _)
DivLimbs(a, d, rem) ==
    IF a = <<>> THEN <<>>
    ELSE LET cur == rem * Base + a[Len(a)]
         IN  DivLimbs(SubSeq(a, 1, Len(a) - 1), d, cur % d) \o <<cur \div d>>

\* floor(a / 2^k)
Shr(a, k) ==
    Trim(DivLimbs(SubSeq(a, (k \div 15) + 1, Len(a)),
                  Pow2(k % 15), 0))

\* the number of binary digits of a digit, and of a natural number
RECURSIVE DigitLen(_)
DigitLen(d) == IF d = 0 THEN 0 ELSE 1 + DigitLen(d \div 2)

BitLen(a) ==
    IF a = <<>> THEN 0 ELSE 15 * (Len(a) - 1) + DigitLen(a[Len(a)])

\* the largest digit q in lo .. hi with q * b <= r
RECURSIVE QuotDigit(_, _, _, _)
QuotDigit(r, b, lo, hi) ==
    IF lo = hi THEN lo
    ELSE LET mid == (lo + hi + 1) \div 2
         IN  IF BCmp(BMulSmall(b, mid), r) <= 0
             THEN QuotDigit(r, b, mid, hi)
             ELSE QuotDigit(r, b, lo, mid - 1)

\* quotient and remainder of a by b, b > 0
RECURSIVE BDivMod(_, _)
BDivMod(a, b) ==
    IF a = <<>> THEN [q |-> <<>>, r |-> <<>>]
    ELSE LET p == BDivMod(Tail(a), b)
             r2 == Trim(<<Head(a)>> \o p.r)
             d == QuotDigit(r2, b, 0, Base - 1)
         IN  [q |-> Trim(<<d>> \o p.q), r |-> BSub(r2, BMulSmall(b, d))]

Zero == [s |-> 1, m |-> <<>>, e |-> 0]

RECURSIVE DigitLowZeros(_)
DigitLowZeros(d) == IF d % 2 = 1 THEN 0 ELSE 1 + DigitLowZeros(d \div 2)

\* the number of zero binary digits below the lowest 1 of a > 0
RECURSIVE LowZeros(_)
LowZeros(a) ==
    IF Head(a) = 0 THEN 15 + LowZeros(Tail(a)) ELSE DigitLowZeros(Head(a))

\* s * M * 2^e with M made odd
Canon(s, M, e) ==
    IF M = <<>> THEN Zero
    ELSE LET z == LowZeros(M) IN [s |-> s, m |-> Shr(M, z), e |-> e + z]

\* s * M * 2^e rounded to Precision binary digits, ties to even
Round(s, M, e) ==
    IF BitLen(M) <= Precision THEN Canon(s, M, e)
    ELSE LET k == BitLen(M) - Precision
             kept == Shr(M, k)
             c == BCmp(BSub(M, Shl(kept, k)), Shl(<<1>>, k - 1))
             up == c > 0 \/ (c = 0 /\ Head(kept) % 2 = 1)
         IN  Canon(s, IF up THEN BAdd(kept, <<1>>) ELSE kept, e + k)

\* float(n) for a whole number n
fromInt(n) == Canon(IF n < 0 THEN -1 ELSE 1, FromNat(IF n < 0 THEN -n ELSE n), 0)

\* the exact sum of two dyadic numbers, not rounded
xadd(a, b) ==
    IF a.m = <<>> THEN b
    ELSE IF b.m = <<>> THEN a
    ELSE LET e0 == IF a.e < b.e THEN a.e ELSE b.e
             A == Shl(a.m, a.e - e0)
             B == Shl(b.m, b.e - e0)
             c == BCmp(A, B)
         IN  IF a.s = b.s THEN [s |-> a.s, m |-> BAdd(A, B), e |-> e0]
             ELSE IF c = 0 THEN Zero
             ELSE IF c > 0 THEN [s |-> a.s, m |-> BSub(A, B), e |-> e0]
             ELSE [s |-> b.s, m |-> BSub(B, A), e |-> e0]

fneg(a) == IF a.m = <<>> THEN a ELSE [a EXCEPT !.s = -a.s]

fabs(a) == [a EXCEPT !.s = 1]

\* -1, 0, 1 for a < b, a = b, a > b
fcmp(a, b) ==
    LET d == xadd(a, fneg(b)) IN IF d.m = <<>> THEN 0 ELSE d.s

fless(a, b) == fcmp(a, b) < 0

fadd(a, b) == LET x == xadd(a, b) IN Round(x.s, x.m, x.e)

fsub(a, b) == fadd(a, fneg(b))

fmul(a, b) == Round(a.s * b.s, BMul(a.m, b.m), a.e + b.e)

\* a / b for b # 0: enough digits of the quotient, and one digit more that
\* tells whether anything was left
fdiv(a, b) ==
    IF a.m = <<>> THEN Zero
    ELSE LET k == IF Precision + 2 + BitLen(b.m) > BitLen(a.m)
                  THEN Precision + 2 + BitLen(b.m) - BitLen(a.m) ELSE 0
             d == BDivMod(Shl(a.m, k), b.m)
             left == IF d.r = <<>> THEN 0 ELSE 1
         IN  Round(a.s * b.s, BAdd(Shl(d.q, 1), FromNat(left)), a.e - b.e - k - 1)

\* math.floor(a) as a whole number
ffloor(a) ==
    IF a.m = <<>> THEN 0
    ELSE IF a.e >= 0 THEN a.s * ToNat(Shl(a.m, a.e))
    ELSE LET q == ToNat(Shr(a.m, 0 - a.e))
         IN  IF a.s = 1 THEN q ELSE -(q + 1)

(***************************************************************************)
(* The grid and its lookup over doubles: the same lines of __init__ and    *)
(* _find_nearest, computed as Python and numpy compute them.  A position   *)
(* is given as the ratio n/d whose nearest double it is (0.3 is 3/10).     *)
(***************************************************************************)
\* float(n / d), the double of the decimal literal
literal(x) == fdiv(fromInt(x.n), fromInt(x.d))

\* np.linspace(start, stop, num) for doubles start and stop: the steps
\* 0 .. num - 1 times (stop - start) / (num - 1), plus start, and the last
\* entry set to stop
f_linspace(start, stop, num) ==
    LET div == num - 1
        delta == fsub(stop, start)
        step == fdiv(delta, fromInt(div))
        y(i) == IF div > 0
                THEN IF step = Zero
                     THEN fmul(fdiv(fromInt(i), fromInt(div)), delta)
                     ELSE fmul(fromInt(i), step)
                ELSE fmul(fromInt(i), delta)
    IN  [i \in 1 .. num |->
            IF num > 1 /\ i = num THEN stop ELSE fadd(y(i - 1), start)]

\* __init__: the bin centers, for whole numbers bias_grid_min, bias_grid_max
f_init_bin_centers(g) ==
    LET bin_half == fdiv(fromInt(g.hi - g.lo), fromInt(2 * g.numbins))
    IN  f_linspace(fadd(fromInt(g.lo), bin_half),
                   fsub(fromInt(g.hi), bin_half), g.numbins)

\* np.searchsorted(array, value, side="left") over doubles
RECURSIVE f_binsearch_left(_, _, _, _)
f_binsearch_left(array, value, lo, hi) ==
    IF lo >= hi THEN lo
    ELSE LET mid == lo + (hi - lo) \div 2
         IN  IF fless(getitem(array, mid), value)
             THEN f_binsearch_left(array, value, mid + 1, hi)
             ELSE f_binsearch_left(array, value, lo, mid)

f_searchsorted(array, value) == f_binsearch_left(array, value, 0, Len(array))

\* _find_nearest over doubles with "<=" for "<"
f_find_nearest_tie_low(array, value) ==
    LET idx == f_searchsorted(array, value)
    IN  IF idx > 0 /\ (\/ idx = Len(array)
                       \/ fcmp(fabs(fsub(value, getitem(array, idx - 1))),
                               fabs(fsub(value, getitem(array, idx)))) <= 0)
        THEN idx - 1
        ELSE idx

\* _find_nearest over doubles: the index (0-based) that is returned
f_find_nearest(array, value) ==
    LET idx == f_searchsorted(array, value)
    IN  IF idx > 0 /\ (\/ idx = Len(array)
                       \/ fless(fabs(fsub(value, getitem(array, idx - 1))),
                                fabs(fsub(value, getitem(array, idx)))))
        THEN idx - 1
        ELSE idx

(***************************************************************************)
(* The state machine.  pc is "new" before the constructor has run.         *)
(* call_count, fired_calls and deposited record the history: the number of *)
(* check_for_metastep calls made, the numbers of the calls that added a    *)
(* Gaussian, and how many Gaussians were added at each position.  op, arg  *)
(* and result are the last operation, its argument and what it returned    *)
(* or raised.                                                              *)
(***************************************************************************)
Sequences_ == UNION {[1 .. m -> SeqPositions] : m \in 1 .. MaxLen}

Queries == {Scalar(x) : x \in QueryPositions} \cup {Array(s) : s \in Sequences_}

\* the two callers of check_for_metastep: where each one is inside the
\* method (at), the counter value it has read for "+= 1" (tmp), the position
\* it handed to _update_potential (pos), the sum it has computed and not yet
\* stored (grid), and whether a call was ever started while another one was
\* still running
Threads == {"a", "b"}

threads_init ==
    [at         |-> [t \in Threads |-> "idle"],
     tmp        |-> [t \in Threads |-> 0],
     pos        |-> [t \in Threads |-> 0],
     grid       |-> [t \in Threads |-> <<>>],
     overlapped |-> FALSE]

\* a sympy expression for V: the expression of the unbiased potential plus,
\* for every position p, gauss[p] Gaussians centered at p, plus `added`
\* copies of addPotential.V
Expr(g, a) == [gauss |-> g, added |-> a]

NoGauss == [p \in StepPositions |-> 0]

\* the unbiased potential that the biased potentials are built on
orig_init == [V |-> Expr(NoGauss, 0), constants |-> {"orig"}]

\* the potentials of the two sympy classes, with the number of their
\* check_for_metastep calls and the numbers of the calls that added a bias
legacy_init ==
    [sympy |-> [made |-> FALSE, n_trigger |-> 0, amplitude |-> 0, sigma |-> 0,
                current_n |-> 0, finished_steps |-> 0,
                constants |-> {}, V |-> Expr(NoGauss, 0),
                calls |-> 0, fired |-> {}],
     td    |-> [made |-> FALSE, n_trigger |-> 0, current_n |-> 0,
                constants |-> {}, V |-> Expr(NoGauss, 0),
                calls |-> 0, fired |-> {}]]

\* the arguments of a call on the perturbed system, absent ones as 0
CallArgs(x, v, f, T, lam, dHdLambda) ==
    [position |-> x, velocity |-> v, force |-> f,
     temperature |-> T, lam |-> lam, dHdLambda |-> dHdLambda]

\* data.lambdaState, as built by update_current_state
lambdaState(sys) ==
    [position |-> sys._currentPosition,
     temperature |-> sys._currentTemperature,
     total_potential_energy |-> sys._currentTotPot,
     dhdpos |-> sys._currentForce,
     velocity |-> sys._currentVelocities,
     lam |-> sys._currentLambda,
     dhdlam |-> sys._currentdHdLambda]

\* np.nan, the value of the class attributes _currentLambda and
\* _currentdHdLambda
nan == "nan"

\* the grid over doubles before its construction
lookup_init ==
    [at |-> "new", g |-> [lo |-> 0, hi |-> 0, numbins |-> 0], centers |-> <<>>,
     x |-> [n |-> 0, d |-> 1], value |-> Zero, nearest |-> 0]

\* the perturbed system before its construction
system_init ==
    LET blank == [phase |-> "new",
                  temperature |-> 0,
                  _currentPosition |-> 0, _currentVelocities |-> 0,
                  _currentForce |-> 0, _currentTemperature |-> 0,
                  _currentLambda |-> nan, _currentdHdLambda |-> nan,
                  _currentTotPot |-> 0,
                  _currentState |-> <<>>,
                  potential_lam |-> 0,
                  trajectory |-> <<>>,
                  call |-> "none", args |-> CallArgs(0, 0, 0, 0, 0, 0)]
    IN  [blank EXCEPT !._currentState = lambdaState(blank)]

Init ==
    /\ pc = "new"
    /\ n_trigger = 0 /\ amplitude = 0 /\ sigma = 0
    /\ bin_centers = <<>> /\ bias_grid_energy = <<>> /\ bias_grid_force = <<>>
    /\ current_n = 0 /\ finished_steps = 0
    /\ call_count = 0 /\ fired_calls = {}
    /\ deposited = [p \in StepPositions |-> 0]
    /\ op = "none" /\ arg = NoValue /\ result = NoValue
    /\ grid_args = [lo |-> 0, hi |-> 0, numbins |-> 0]
    /\ threads = threads_init
    /\ legacy = legacy_init
    /\ orig = orig_init
    /\ system = system_init
    /\ lookup = lookup_init

\* metadynamicsPotential(origPotential, amplitude, sigma, n_trigger,
\*                       bias_grid_min, bias_grid_max, numbins)
Construct ==
    /\ pc = "new"
    /\ \E n \in NTriggers, A \in Amplitudes, s \in Sigmas, g \in GridConfigs :
          /\ n_trigger' = n
          /\ amplitude' = A
          /\ sigma' = s
          /\ bias_grid_energy' = zeros(g.numbins)
          /\ bias_grid_force' = zeros(g.numbins)
          /\ bin_centers' = init_bin_centers(g)
          /\ grid_args' = g
    /\ current_n' = 1
    /\ finished_steps' = 0
    /\ pc' = "ready"
    /\ op' = "__init__" /\ arg' = NoValue /\ result' = NoValue
    /\ UNCHANGED <<call_count, fired_calls, deposited, ext>>

\* metadynamicsPotential(...) with grid arguments of any kind: np.zeros
\* refuses a negative numbins, and the half bin width divides by 2*numbins
ConstructAny ==
    /\ pc = "new"
    /\ \E n \in {1, 2}, g \in AnyGridConfigs :
          /\ grid_args' = g
          /\ IF g.numbins <= 0
             THEN /\ pc' = "failed"
                  /\ result' = Raised(IF g.numbins < 0 THEN "ValueError"
                                                       ELSE "ZeroDivisionError")
                  /\ UNCHANGED obj
             ELSE /\ n_trigger' = n
                  /\ amplitude' = 1
                  /\ sigma' = 2
                  /\ bias_grid_energy' = zeros(g.numbins)
                  /\ bias_grid_force' = zeros(g.numbins)
                  /\ bin_centers' = init_bin_centers(g)
                  /\ current_n' = 1
                  /\ finished_steps' = 0
                  /\ pc' = "ready"
                  /\ result' = NoValue
    /\ op' = "__init__" /\ arg' = NoValue
    /\ UNCHANGED <<call_count, fired_calls, deposited, ext>>

\* check_for_metastep(curr_position)
CheckForMetastep ==
    /\ pc = "ready"
    /\ call_count < MaxCalls
    /\ call_count' = call_count + 1
    /\ op' = "check_for_metastep" /\ arg' = NoValue
    /\ UNCHANGED <<pc, n_trigger, amplitude, sigma, bin_centers, grid_args, ext>>
    /\ \E curr_position \in StepPositions :
          IF n_trigger = 0
          THEN \* current_n % 0 raises
               /\ result' = Raised("ZeroDivisionError")
               /\ UNCHANGED <<bias_grid_energy, bias_grid_force, current_n,
                              finished_steps, fired_calls, deposited>>
          ELSE IF metastep_due(current_n, n_trigger)
          THEN LET new == _update_potential(bias_grid_energy, bias_grid_force,
                                            bin_centers, amplitude, sigma,
                                            curr_position)
               IN  /\ bias_grid_energy' = new.energy
                   /\ bias_grid_force' = new.force
                   /\ finished_steps' = finished_steps + 1
                   /\ current_n' = 1
                   /\ fired_calls' = fired_calls \cup {call_count + 1}
                   /\ deposited' = [deposited EXCEPT ![curr_position] = @ + 1]
                   /\ result' = NoValue
          ELSE /\ current_n' = current_n + 1
               /\ result' = NoValue
               /\ UNCHANGED <<bias_grid_energy, bias_grid_force,
                              finished_steps, fired_calls, deposited>>

\* ene that counts as a simulation step
Ene_counting ==
    /\ pc = "ready"
    /\ \E positions \in Queries :
          /\ arg' = positions
          /\ result' = ene(bin_centers, bias_grid_energy, positions)
    /\ op' = "ene"
    /\ current_n' = current_n + 1
    /\ UNCHANGED <<pc, n_trigger, amplitude, sigma, bin_centers,
                   bias_grid_energy, bias_grid_force, finished_steps,
                   call_count, fired_calls, deposited, grid_args, ext>>

\* ene(positions)
Ene ==
    /\ pc = "ready"
    /\ \E positions \in Queries :
          /\ arg' = positions
          /\ result' = ene(bin_centers, bias_grid_energy, positions)
    /\ op' = "ene"
    /\ UNCHANGED <<pc, obj, call_count, fired_calls, deposited, grid_args, ext>>

\* force(positions)
Force ==
    /\ pc = "ready"
    /\ \E positions \in Queries :
          /\ arg' = positions
          /\ result' = force(bin_centers, bias_grid_force, positions)
    /\ op' = "force"
    /\ UNCHANGED <<pc, obj, call_count, fired_calls, deposited, grid_args, ext>>

\* _find_nearest(self.bin_centers, value)
FindNearest ==
    /\ pc = "ready"
    /\ \E value \in QueryPositions :
          /\ arg' = Scalar(value)
          /\ result' = _find_nearest_of(bin_centers, Scalar(value))
    /\ op' = "_find_nearest"
    /\ UNCHANGED <<pc, obj, call_count, fired_calls, deposited, grid_args, ext>>

Next == Construct \/ CheckForMetastep \/ Ene \/ Force \/ FindNearest

Spec == Init /\ [][Next]_vars

(***************************************************************************)
(* check_for_metastep called by two callers without serialization.  Each   *)
(* statement of the method is a step of its own, and a statement that      *)
(* reads an attribute and assigns it again ("x += 1", "g = g + new") is a  *)
(* read followed by a store.                                               *)
(***************************************************************************)
\* the number of calls the two callers make together
MaxConcCalls == 3

AllIdle == \A t \in Threads : threads.at[t] = "idle"

\* line 220: the call starts and evaluates current_n % n_trigger == 0
ThreadTest(t) ==
    /\ pc = "ready"
    /\ threads.at[t] = "idle"
    /\ call_count < MaxConcCalls
    /\ call_count' = call_count + 1
    /\ threads' = [threads EXCEPT
          !.at[t] = IF n_trigger = 0 THEN "idle"
                    ELSE IF metastep_due(current_n, n_trigger) THEN "update"
                    ELSE "read",
          !.overlapped = @ \/ ~AllIdle]
    /\ op' = "check_for_metastep" /\ arg' = NoValue
    /\ result' = IF n_trigger = 0 THEN Raised("ZeroDivisionError") ELSE NoValue
    /\ UNCHANGED <<pc, obj, fired_calls, deposited, grid_args, legacy, orig, system, lookup>>

\* line 221 and line 248, first half: _update_potential(curr_position) is
\* entered, the energy grid is read and the Gaussian is added to the copy
ThreadEnergyRead(t) ==
    /\ threads.at[t] = "update"
    /\ \E curr_position \in StepPositions :
          threads' = [threads EXCEPT
              !.at[t] = "energy_store",
              !.pos[t] = curr_position,
              !.grid[t] = _update_potential(bias_grid_energy, bias_grid_force,
                                            bin_centers, amplitude, sigma,
                                            curr_position).energy]
    /\ UNCHANGED <<pc, obj, call_count, fired_calls, deposited, op, arg,
                   result, grid_args, legacy, orig, system, lookup>>

\* line 248, second half: the sum is stored as bias_grid_energy
ThreadEnergyStore(t) ==
    /\ threads.at[t] = "energy_store"
    /\ bias_grid_energy' = threads.grid[t]
    /\ threads' = [threads EXCEPT !.at[t] = "force_read", !.grid[t] = <<>>]
    /\ UNCHANGED <<pc, n_trigger, amplitude, sigma, bin_centers,
                   bias_grid_force, current_n, finished_steps, call_count,
                   fired_calls, deposited, op, arg, result, grid_args,
                   legacy, orig, system, lookup>>

\* line 249, first half: the force grid is read and the slope of the
\* Gaussian is added to the copy
ThreadForceRead(t) ==
    /\ threads.at[t] = "force_read"
    /\ threads' = [threads EXCEPT
          !.at[t] = "force_store",
          !.grid[t] = _update_potential(bias_grid_energy, bias_grid_force,
                                        bin_centers, amplitude, sigma,
                                        threads.pos[t]).force]
    /\ UNCHANGED <<pc, obj, call_count, fired_calls, deposited, op, arg,
                   result, grid_args, legacy, orig, system, lookup>>

\* line 249, second half: the sum is stored as bias_grid_force, and
\* _update_potential returns
ThreadForceStore(t) ==
    /\ threads.at[t] = "force_store"
    /\ bias_grid_force' = threads.grid[t]
    /\ deposited' = [deposited EXCEPT ![threads.pos[t]] = @ + 1]
    /\ threads' = [threads EXCEPT !.at[t] = "count", !.grid[t] = <<>>,
                                  !.pos[t] = 0]
    /\ UNCHANGED <<pc, n_trigger, amplitude, sigma, bin_centers,
                   bias_grid_energy, current_n, finished_steps, call_count,
                   fired_calls, op, arg, result, grid_args, legacy, orig,
                   system, lookup>>

\* line 222, first half: finished_steps is read
ThreadCountRead(t) ==
    /\ threads.at[t] = "count"
    /\ threads' = [threads EXCEPT !.at[t] = "count_store",
                                  !.tmp[t] = finished_steps]
    /\ UNCHANGED <<pc, obj, call_count, fired_calls, deposited, op, arg,
                   result, grid_args, legacy, orig, system, lookup>>

\* line 222, second half: the value read, plus 1, is stored
ThreadCountStore(t) ==
    /\ threads.at[t] = "count_store"
    /\ finished_steps' = threads.tmp[t] + 1
    /\ threads' = [threads EXCEPT !.at[t] = "reset", !.tmp[t] = 0]
    /\ UNCHANGED <<pc, n_trigger, amplitude, sigma, bin_centers,
                   bias_grid_energy, bias_grid_force, current_n,
                   call_count, fired_calls, deposited, op, arg, result,
                   grid_args, legacy, orig, system, lookup>>

\* line 223: current_n = 1, and the call returns
ThreadReset(t) ==
    /\ threads.at[t] = "reset"
    /\ current_n' = 1
    /\ threads' = [threads EXCEPT !.at[t] = "idle"]
    /\ UNCHANGED <<pc, n_trigger, amplitude, sigma, bin_centers,
                   bias_grid_energy, bias_grid_force, finished_steps,
                   call_count, fired_calls, deposited, op, arg, result,
                   grid_args, legacy, orig, system, lookup>>

\* line 225, first half: current_n is read
ThreadRead(t) ==
    /\ threads.at[t] = "read"
    /\ threads' = [threads EXCEPT !.at[t] = "write", !.tmp[t] = current_n]
    /\ UNCHANGED <<pc, obj, call_count, fired_calls, deposited, op, arg,
                   result, grid_args, legacy, orig, system, lookup>>

\* line 225, second half: the value read, plus 1, is stored, and the call
\* returns
ThreadWrite(t) ==
    /\ threads.at[t] = "write"
    /\ current_n' = threads.tmp[t] + 1
    /\ threads' = [threads EXCEPT !.at[t] = "idle", !.tmp[t] = 0]
    /\ UNCHANGED <<pc, n_trigger, amplitude, sigma, bin_centers,
                   bias_grid_energy, bias_grid_force, finished_steps,
                   call_count, fired_calls, deposited, op, arg, result,
                   grid_args, legacy, orig, system, lookup>>

NextConc ==
    \/ Construct
    \/ \E t \in Threads : ThreadTest(t)
    \/ \E t \in Threads : ThreadEnergyRead(t)
    \/ \E t \in Threads : ThreadEnergyStore(t)
    \/ \E t \in Threads : ThreadForceRead(t)
    \/ \E t \in Threads : ThreadForceStore(t)
    \/ \E t \in Threads : ThreadCountRead(t)
    \/ \E t \in Threads : ThreadCountStore(t)
    \/ \E t \in Threads : ThreadReset(t)
    \/ \E t \in Threads : ThreadRead(t)
    \/ \E t \in Threads : ThreadWrite(t)

SpecConc == Init /\ [][NextConc]_vars

(***************************************************************************)
(* timedependendBias and metadynamicsPotentialSympy, built on the same     *)
(* unbiased potential as a metadynamicsPotential.                          *)
(***************************************************************************)
\* the test of the sympy check_for_metastep made on the incremented counter
sympy_metastep_due_early(cur, n) == PyMod(cur + 1, n) = 0

\* metadynamicsPotentialSympy.check_for_metastep: the test
sympy_metastep_due(cur, n) == PyMod(cur, n) = 0

\* timedependendBias.check_for_metastep: the test
td_metastep_due(cur, n) == PyMod(cur, n) = 0

\* metadynamicsPotentialSympy.__init__
sympy_init(base, A, s, n) ==
    [made |-> TRUE, n_trigger |-> n, amplitude |-> A, sigma |-> s,
     current_n |-> 1, finished_steps |-> 0,
     constants |-> base.constants \cup {"gauss"}, V |-> base.V,
     calls |-> 0, fired |-> {}]

\* timedependendBias.__init__
td_init(base, n) ==
    [made |-> TRUE, n_trigger |-> n, current_n |-> 1,
     constants |-> base.constants \cup {"add"}, V |-> base.V,
     calls |-> 0, fired |-> {}]

\* metadynamicsPotentialSympy.check_for_metastep(curr_position); with
\* n_trigger = 0 the test raises and nothing is assigned
sympy_check_for_metastep(self, curr_position) ==
    IF self.n_trigger = 0
    THEN [self EXCEPT !.calls = @ + 1]
    ELSE IF sympy_metastep_due(self.current_n, self.n_trigger)
    THEN [self EXCEPT
            !.V = Expr([self.V.gauss EXCEPT ![curr_position] = @ + 1],
                       self.V.added),
            !.finished_steps = @ + 1,
            !.current_n = 1,
            !.calls = @ + 1,
            !.fired = @ \cup {self.calls + 1}]
    ELSE [self EXCEPT !.current_n = @ + 1, !.calls = @ + 1]

\* timedependendBias.check_for_metastep(curr_position)
td_check_for_metastep(self, curr_position) ==
    IF self.n_trigger = 0
    THEN [self EXCEPT !.calls = @ + 1]
    ELSE IF td_metastep_due(self.current_n, self.n_trigger)
    THEN [self EXCEPT
            !.V = Expr(self.V.gauss, self.V.added + 1),
            !.current_n = 1,
            !.calls = @ + 1,
            !.fired = @ \cup {self.calls + 1}]
    ELSE [self EXCEPT !.current_n = @ + 1, !.calls = @ + 1]

\* the three potentials are constructed on the same unbiased potential
\* with the same n_trigger
ConstructShared ==
    /\ pc = "new"
    /\ \E n \in NTriggers :
          LET g == [lo |-> 0, hi |-> 8, numbins |-> 4]
          IN  /\ n_trigger' = n
              /\ amplitude' = 1
              /\ sigma' = 2
              /\ bias_grid_energy' = zeros(g.numbins)
              /\ bias_grid_force' = zeros(g.numbins)
              /\ bin_centers' = init_bin_centers(g)
              /\ grid_args' = g
              /\ legacy' = [sympy |-> sympy_init(orig, 1, 2, n),
                            td    |-> td_init(orig, n)]
    /\ current_n' = 1
    /\ finished_steps' = 0
    /\ pc' = "ready"
    /\ op' = "__init__" /\ arg' = NoValue /\ result' = NoValue
    /\ UNCHANGED <<call_count, fired_calls, deposited, threads, orig, system, lookup>>

\* a sympy check_for_metastep that adds the Gaussian to the expression of
\* the unbiased potential itself
SympyCheckForMetastep_in_place ==
    /\ legacy.sympy.made
    /\ legacy.sympy.calls < MaxCalls
    /\ \E curr_position \in StepPositions :
          LET new == sympy_check_for_metastep(legacy.sympy, curr_position)
          IN  /\ legacy' = [legacy EXCEPT !.sympy = new]
              /\ orig' = [orig EXCEPT !.V = new.V]
    /\ UNCHANGED <<meta, threads, system, lookup>>

\* metadynamicsPotentialSympy.check_for_metastep(curr_position)
SympyCheckForMetastep ==
    /\ legacy.sympy.made
    /\ legacy.sympy.calls < MaxCalls
    /\ \E curr_position \in StepPositions :
          legacy' = [legacy EXCEPT
                        !.sympy = sympy_check_for_metastep(@, curr_position)]
    /\ UNCHANGED <<meta, threads, orig, system, lookup>>

\* timedependendBias.check_for_metastep(curr_position)
TimedependendCheckForMetastep ==
    /\ legacy.td.made
    /\ legacy.td.calls < MaxCalls
    /\ \E curr_position \in StepPositions :
          legacy' = [legacy EXCEPT
                        !.td = td_check_for_metastep(@, curr_position)]
    /\ UNCHANGED <<meta, threads, orig, system, lookup>>

NextLegacy ==
    \/ ConstructShared
    \/ CheckForMetastep
    \/ SympyCheckForMetastep
    \/ TimedependendCheckForMetastep

SpecLegacy == Init /\ [][NextLegacy]_vars

\* the potential over grids of any kind
NextGrid == ConstructAny \/ CheckForMetastep \/ Ene \/ Force \/ FindNearest

SpecGrid == Init /\ [][NextGrid]_vars

(***************************************************************************)
(* perturbedSystem.  The base class system and the perturbed potential are *)
(* not part of the source file: the potential is a linear coupling of two  *)
(* harmonic states, and the base class updates are the ones of             *)
(* basic_system.                                                           *)
(***************************************************************************)
MaxTraj == 2

DefaultTemperature == 298

SysPositions == {0, 1}
SysVelocities == {0, 2}
SysForces == {0, 3}
Lambdas == {0, 1}

\* the two coupled states of the perturbed potential
stateA(x) == x * x
stateB(x) == (x - 2) * (x - 2)

\* potential.ene(position) at the lambda the potential holds
potential_ene(lam, x) == (1 - lam) * stateA(x) + lam * stateB(x)

\* potential.dvdlam(position)
potential_dvdlam(x) == stateB(x) - stateA(x)

\* potential.set_lambda(lam)
potential_set_lambda(sys, lam) == [sys EXCEPT !.potential_lam = lam]

\* system._update_energies
_update_energies(sys) ==
    [sys EXCEPT !._currentTotPot =
                    potential_ene(sys.potential_lam, sys._currentPosition)]

\* system._update_temperature
_update_temperature(sys) ==
    [sys EXCEPT !._currentTemperature = sys.temperature]

\* update_current_state
update_current_state(sys) ==
    [sys EXCEPT !._currentState = lambdaState(sys)]

\* _update_dHdLambda
_update_dHdLambda(sys) ==
    update_current_state(
        [sys EXCEPT !._currentdHdLambda = potential_dvdlam(sys._currentPosition)])

\* update_system_properties
update_system_properties(sys) ==
    _update_dHdLambda(_update_temperature(_update_energies(sys)))

\* the setter of lam
lam_setter(sys, lam) ==
    _update_energies(
        potential_set_lambda([sys EXCEPT !._currentLambda = lam], lam))

\* set_lambda(lam)
set_lambda(sys, lam) == lam_setter(sys, lam)

\* set_current_state(current_position, current_velocities, current_force,
\*                   current_temperature, current_lambda, current_dHdLambda)
set_current_state(sys, a) ==
    update_current_state(_update_dHdLambda(_update_energies(
        [sys EXCEPT !._currentPosition = a.position,
                    !._currentForce = a.force,
                    !._currentVelocities = a.force,
                    !._currentTemperature = a.temperature,
                    !._currentLambda = a.lam,
                    !._currentdHdLambda = a.dHdLambda])))

\* append_state(new_position, new_velocity, new_forces, new_lambda)
append_state(sys, a) ==
    LET cur == update_current_state(_update_dHdLambda(_update_energies(
                   _update_temperature(
                       [sys EXCEPT !._currentPosition = a.position,
                                   !._currentVelocities = a.velocity,
                                   !._currentForce = a.force,
                                   !._currentLambda = a.lam]))))
    IN  [cur EXCEPT !.trajectory = Append(@, cur._currentState)]

\* perturbedSystem(potential, sampler, temperature, start_position, lam)
SystemConstruct ==
    /\ system.phase = "new"
    /\ \E x \in SysPositions, lam \in Lambdas :
          LET a == CallArgs(x, 0, 0, DefaultTemperature, lam, 0)
              made == update_current_state(_update_energies(
                          [system EXCEPT !.phase = "ready",
                                         !._currentLambda = lam,
                                         !.temperature = DefaultTemperature,
                                         !._currentTemperature = DefaultTemperature,
                                         !._currentPosition = x]))
          IN  system' = [set_lambda(made, lam) EXCEPT
                             !.call = "__init__", !.args = a]
    /\ UNCHANGED <<meta, threads, legacy, orig, lookup>>

\* system.set_lambda(lam) and system.lam = lam
SystemSetLambda ==
    /\ system.phase = "ready"
    /\ \E lam \in Lambdas :
          system' = [set_lambda(system, lam) EXCEPT
                         !.call = "set_lambda",
                         !.args = CallArgs(0, 0, 0, 0, lam, 0)]
    /\ UNCHANGED <<meta, threads, legacy, orig, lookup>>

SystemSetCurrentState ==
    /\ system.phase = "ready"
    /\ \E x \in SysPositions, v \in SysVelocities, f \in SysForces,
          lam \in Lambdas :
          LET a == CallArgs(x, v, f, DefaultTemperature, lam, 0)
          IN  system' = [set_current_state(system, a) EXCEPT
                             !.call = "set_current_state", !.args = a]
    /\ UNCHANGED <<meta, threads, legacy, orig, lookup>>

SystemAppendState ==
    /\ system.phase = "ready"
    /\ Len(system.trajectory) < MaxTraj
    /\ \E x \in SysPositions, v \in SysVelocities, f \in SysForces,
          lam \in Lambdas :
          LET a == CallArgs(x, v, f, 0, lam, 0)
          IN  system' = [append_state(system, a) EXCEPT
                             !.call = "append_state", !.args = a]
    /\ UNCHANGED <<meta, threads, legacy, orig, lookup>>

\* system.update_system_properties()
SystemUpdateSystemProperties ==
    /\ system.phase = "ready"
    /\ system' = [update_system_properties(system) EXCEPT
                      !.call = "update_system_properties",
                      !.args = CallArgs(0, 0, 0, 0, 0, 0)]
    /\ UNCHANGED <<meta, threads, legacy, orig, lookup>>

\* system.update_current_state()
SystemUpdateCurrentState ==
    /\ system.phase = "ready"
    /\ system' = [update_current_state(system) EXCEPT
                      !.call = "update_current_state",
                      !.args = CallArgs(0, 0, 0, 0, 0, 0)]
    /\ UNCHANGED <<meta, threads, legacy, orig, lookup>>

NextSystem ==
    \/ SystemConstruct
    \/ SystemSetLambda
    \/ SystemSetCurrentState
    \/ SystemUpdateSystemProperties
    \/ SystemUpdateCurrentState
    \/ SystemAppendState

SpecSystem == Init /\ [][NextSystem]_vars

(***************************************************************************)
(* The grid over doubles: construction from whole-number bounds, and       *)
(* _find_nearest for positions on the bin boundaries, on the bin centers   *)
(* and outside of the grid.                                                *)
(***************************************************************************)
MaxMarks == 4

Least(a, b) == IF a < b THEN a ELSE b

\* valid grid arguments, those of the default grid among them
FloatGrids ==
    [lo : {0}, hi : {1, 8, 10}, numbins : 1 .. MaxBins]
        \cup {[lo |-> 0, hi |-> 10, numbins |-> 100]}

\* the positions asked for on grid g, as ratios: the first bin boundaries
\* lo + k * w, the first bin centers, and positions outside of the grid
FloatQueries(g) ==
    {[n |-> g.lo * g.numbins + k * (g.hi - g.lo), d |-> g.numbins] :
        k \in 0 .. Least(g.numbins, MaxMarks)}
    \cup {[n |-> 2 * g.lo * g.numbins + (2 * k + 1) * (g.hi - g.lo),
           d |-> 2 * g.numbins] : k \in 0 .. Least(g.numbins - 1, MaxMarks)}
    \cup {[n |-> x, d |-> 1] :
            x \in {g.lo - 1000, g.lo - 1, g.hi + 1, g.hi + 1000}}

\* metadynamicsPotential(..., bias_grid_min, bias_grid_max, numbins)
FloatConstruct ==
    /\ lookup.at = "new"
    /\ \E g \in FloatGrids :
          lookup' = [lookup EXCEPT !.at = "built", !.g = g,
                                   !.centers = f_init_bin_centers(g)]
    /\ UNCHANGED <<meta, threads, legacy, orig, system>>

\* _find_nearest(self.bin_centers, value)
FloatFindNearest ==
    /\ lookup.at \in {"built", "asked"}
    /\ \E x \in FloatQueries(lookup.g) :
          lookup' = [lookup EXCEPT
                        !.at = "asked", !.x = x, !.value = literal(x),
                        !.nearest = f_find_nearest(lookup.centers, literal(x))]
    /\ UNCHANGED <<meta, threads, legacy, orig, system>>

NextFloat == FloatConstruct \/ FloatFindNearest

SpecFloat == Init /\ [][NextFloat]_vars

TypeOK ==
    /\ pc \in {"new", "ready", "failed"}
    /\ Len(bias_grid_energy) = Len(bin_centers)
    /\ Len(bias_grid_force) = Len(bin_centers)
    /\ call_count \in 0 .. MaxCalls

(***************************************************************************)
(* Properties.                                                             *)
(***************************************************************************)
RECURSIVE SetSum(_, _)
SetSum(S, F) ==
    IF S = {} THEN 0
    ELSE LET x == CHOOSE y \in S : TRUE IN F[x] + SetSum(S \ {x}, F)

\* no bin center is strictly closer to x than center i (0-based)
NoCloser(centers, x, i) ==
    /\ i \in 0 .. Len(centers) - 1
    /\ \A j \in 1 .. Len(centers) :
          Abs(x - centers[j]) >= Abs(x - centers[i + 1])

\* x lies exactly midway between the adjacent centers i and i + 1 (0-based)
Midway(centers, x, i) ==
    /\ i \in 0 .. Len(centers) - 2
    /\ centers[i + 1] < x
    /\ x - centers[i + 1] = centers[i + 2] - x

\* the potential was constructed with the parameters the documentation of
\* __init__ asks for
ProperlyConfigured == pc = "ready" /\ n_trigger > 0 /\ sigma > 0

\* the sum of the Gaussians added so far, at bin i
DepositedEnergy(i) ==
    SetSum(StepPositions,
           [p \in StepPositions |->
               deposited[p] * gaussV(amplitude, p, sigma, bin_centers[i])])

DepositedForce(i) ==
    SetSum(StepPositions,
           [p \in StepPositions |->
               deposited[p] * gaussdVdpos(amplitude, p, sigma, bin_centers[i])])

\* C1: for n_trigger > 0 the bias is added on exactly the calls numbered
\* n_trigger, 2*n_trigger, ... of check_for_metastep, and after k calls
\* finished_steps is floor(k / n_trigger).
C1_FiresEveryNth ==
    (pc = "ready" /\ n_trigger > 0) =>
        /\ fired_calls = {k \in 1 .. call_count : k % n_trigger = 0}
        /\ finished_steps = call_count \div n_trigger

C1_Witness ==
    /\ n_trigger = 3 /\ call_count = 6
    /\ fired_calls = {3, 6} /\ finished_steps = 2

\* C2: in every state of a constructed potential current_n is in
\* [1, n_trigger], and it is 1 right after a call that added the bias.
C2_CounterInRange ==
    pc = "ready" =>
        /\ current_n >= 1 /\ current_n <= n_trigger
        /\ (op = "check_for_metastep" /\ call_count \in fired_calls)
              => current_n = 1

\* C3 as stated: _find_nearest returns an index with no center strictly
\* closer, and the lower index when the value is midway between two centers
\* (stated for properly configured potentials, where it already fails).
C3_TieToLower ==
    (op = "_find_nearest" /\ ProperlyConfigured) =>
        /\ result.kind = "scalar"
        /\ NoCloser(bin_centers, arg.vals[1], result.vals[1])
        /\ \A i \in 0 .. Len(bin_centers) - 2 :
              Midway(bin_centers, arg.vals[1], i) => result.vals[1] = i

\* C3 as amended: _find_nearest returns an index with no center strictly
\* closer, and the higher index when the value is midway between two centers.
C3_TieToHigher ==
    op = "_find_nearest" =>
        /\ result.kind = "scalar"
        /\ NoCloser(bin_centers, arg.vals[1], result.vals[1])
        /\ \A i \in 0 .. Len(bin_centers) - 2 :
              Midway(bin_centers, arg.vals[1], i) => result.vals[1] = i + 1

C3_Witness ==
    /\ ProperlyConfigured
    /\ op = "_find_nearest"
    /\ \E i \in 0 .. Len(bin_centers) - 2 :
          /\ Midway(bin_centers, arg.vals[1], i)
          /\ result = Scalar(i + 1)

\* C4: a value outside the grid never raises: below the lowest center the
\* lookup gives index 0, above the highest it gives numbins - 1, and ene and
\* force read the first or the last entry of their grid there.
C4_EdgeClamp ==
    (op \in {"_find_nearest", "ene", "force"} /\ arg.kind = "scalar") =>
        LET x    == arg.vals[1]
            n    == Len(bin_centers)
            edge == IF x < bin_centers[1] THEN 1 ELSE n
        IN  (x < bin_centers[1] \/ x > bin_centers[n]) =>
               /\ op = "_find_nearest" => result = Scalar(edge - 1)
               /\ op = "ene" => result = Scalar(origV(x) + bias_grid_energy[edge])
               /\ op = "force" => result = Scalar(origdVdpos(x) + bias_grid_force[edge])

C4_Witness ==
    /\ ProperlyConfigured
    /\ op = "ene" /\ arg = Scalar(-1000)
    /\ bias_grid_energy[1] > 0
    /\ _find_nearest(bin_centers, 0) = 0
    /\ result = Scalar(origV(-1000) + bias_grid_energy[1])

\* C5: both grids are the sum, bin by bin, of the Gaussians added so far
\* (energy and derivative at the bin center); nothing is ever reset, and
\* one Gaussian is added per counted update.
C5_GridIsSumOfDeposits ==
    pc = "ready" =>
        /\ \A i \in 1 .. Len(bin_centers) :
              /\ bias_grid_energy[i] = DepositedEnergy(i)
              /\ bias_grid_force[i] = DepositedForce(i)
        /\ SetSum(StepPositions, deposited) = finished_steps

C5_Witness ==
    /\ ProperlyConfigured
    /\ pc = "ready"
    /\ finished_steps >= 3
    /\ Cardinality({p \in StepPositions : deposited[p] > 0}) >= 2
    /\ \E i \in 1 .. Len(bin_centers) : bias_grid_energy[i] > 100 * amplitude

\* C6: ene at a position is the energy of the unbiased potential there plus
\* the entry of the energy grid at the bin _find_nearest gives for that
\* position, for a single position and for every entry of a sequence.
C6_EneIsBasePlusBias ==
    op = "ene" =>
        /\ IsValue(result)
        /\ Len(result.vals) = Len(arg.vals)
        /\ \A i \in 1 .. Len(arg.vals) :
              result.vals[i] =
                  origV(arg.vals[i])
                + getitem(bias_grid_energy, _find_nearest(bin_centers, arg.vals[i]))

C6_Witness ==
    /\ ProperlyConfigured
    /\ op = "ene" /\ arg = Array(<<4, 9>>)
    /\ Len(bin_centers) > 1
    /\ getitem(bias_grid_energy, _find_nearest(bin_centers, 4))
          # getitem(bias_grid_energy, _find_nearest(bin_centers, 9))
    /\ result.vals[1] > origV(4)

\* C7: force accepts a sequence of m positions and returns m values, the
\* i-th being the derivative of the unbiased potential at the i-th position
\* plus the entry of the force grid at that position's own bin (stated for
\* properly configured potentials, where it already fails).
C7_ForceOfSequence ==
    (op = "force" /\ arg.kind = "array" /\ ProperlyConfigured) =>
        /\ IsValue(result)
        /\ Len(result.vals) = Len(arg.vals)
        /\ \A i \in 1 .. Len(arg.vals) :
              result.vals[i] =
                  origdVdpos(arg.vals[i])
                + getitem(bias_grid_force, _find_nearest(bin_centers, arg.vals[i]))

\* C8 as stated: the shape of what ene returns mirrors its argument: a number
\* for a number, m values for a sequence of m positions, m >= 1 (stated for
\* properly configured potentials, where it already fails).
C8_ShapeMirrors ==
    (op = "ene" /\ ProperlyConfigured) =>
        /\ arg.kind = "scalar" => result.kind = "scalar"
        /\ arg.kind = "array" =>
              result.kind = "array" /\ Len(result.vals) = Len(arg.vals)

\* C8 as amended: ene returns a number for a number, m values for a sequence
\* of m >= 2 positions, and a single number (not a sequence of one) for a
\* sequence of exactly one position.
C8_ShapeSqueezed ==
    op = "ene" =>
        /\ arg.kind = "scalar" => result.kind = "scalar"
        /\ (arg.kind = "array" /\ Len(arg.vals) >= 2) =>
              result.kind = "array" /\ Len(result.vals) = Len(arg.vals)
        /\ (arg.kind = "array" /\ Len(arg.vals) = 1) => result.kind = "scalar"

C8_Witness ==
    /\ ProperlyConfigured
    /\ op = "ene" /\ arg.kind = "array" /\ Len(arg.vals) = 1
    /\ result.kind = "scalar"
    /\ finished_steps > 0

\* C9: a call of ene or force changes nothing of the potential (counter,
\* update count, both grids, bin centers, parameters), and a read repeated
\* with the same positions right after the first returns the same result.
C9_ReadsChangeNothing ==
    [][op' \in {"ene", "force"} =>
          /\ UNCHANGED <<pc, obj>>
          /\ (op' = op /\ arg' = arg) => result' = result]_vars

C9_Witness ==
    /\ ProperlyConfigured
    /\ op \in {"ene", "force"}
    /\ IsValue(result)
    /\ finished_steps > 0 /\ current_n > 1

\* C10: no potential exists whose n_trigger or sigma is <= 0: the
\* constructor refuses such values.
C10_ConfigurationChecked ==
    pc = "ready" => (n_trigger > 0 /\ sigma > 0)

\* the grid arguments are the ones the documentation of __init__ asks for
ValidGrid == grid_args.hi > grid_args.lo /\ grid_args.numbins > 0

\* C11: no potential exists whose grid has bias_grid_max <= bias_grid_min or
\* numbins <= 0: the constructor refuses such arguments.
C11_GridChecked ==
    pc = "ready" => ValidGrid

\* C12: from construction until the first Gaussian is added (in particular
\* while fewer than n_trigger calls of check_for_metastep have been made)
\* every entry of both grids is zero, and ene and force return the values of
\* the unbiased potential.
C12_UntouchedGridIsZero ==
    pc = "ready" =>
        /\ (n_trigger > 0 /\ call_count < n_trigger) => finished_steps = 0
        /\ finished_steps = 0 =>
              /\ \A i \in 1 .. Len(bin_centers) :
                    bias_grid_energy[i] = 0 /\ bias_grid_force[i] = 0
              /\ (op = "ene" /\ IsValue(result)) =>
                    \A i \in 1 .. Len(arg.vals) :
                        result.vals[i] = origV(arg.vals[i])
              /\ (op = "force" /\ IsValue(result)) =>
                    \A i \in 1 .. Len(arg.vals) :
                        result.vals[i] = origdVdpos(arg.vals[i])

C12_Witness ==
    /\ ProperlyConfigured
    /\ call_count > 0 /\ call_count = n_trigger - 1
    /\ op = "ene" /\ arg = Scalar(4)
    /\ result = Scalar(origV(4))

\* C13: when the calls of check_for_metastep are serialized, the number of
\* Gaussians added is floor(calls / n_trigger) whenever no call is running,
\* and both grids hold every one of them; when two callers overlap there is
\* an interleaving after which it is not (the witness: a Gaussian too many).
C13_SerializedCallsFireEveryNth ==
    (pc = "ready" /\ n_trigger > 0 /\ AllIdle /\ ~threads.overlapped) =>
        /\ SetSum(StepPositions, deposited) = call_count \div n_trigger
        /\ finished_steps = call_count \div n_trigger
        /\ \A i \in 1 .. Len(bin_centers) :
              /\ bias_grid_energy[i] = DepositedEnergy(i)
              /\ bias_grid_force[i] = DepositedForce(i)

C13_Witness ==
    /\ ProperlyConfigured
    /\ AllIdle /\ threads.overlapped
    /\ SetSum(StepPositions, deposited) > call_count \div n_trigger

\* C14: built with the same n_trigger, the two sympy classes and the grid
\* class agree after the same number of check_for_metastep calls: the same
\* calls added a bias, the counters current_n are equal, and finished_steps
\* of metadynamicsPotentialSympy equals finished_steps of the grid class.
C14_LegacySameTrigger ==
    pc = "ready" =>
        /\ legacy.sympy.calls = call_count =>
              /\ legacy.sympy.fired = fired_calls
              /\ legacy.sympy.current_n = current_n
              /\ legacy.sympy.finished_steps = finished_steps
              /\ SetSum(StepPositions, legacy.sympy.V.gauss) = finished_steps
        /\ legacy.td.calls = call_count =>
              /\ legacy.td.fired = fired_calls
              /\ legacy.td.current_n = current_n
              /\ legacy.td.V.added = finished_steps

C14_Witness ==
    /\ ProperlyConfigured /\ n_trigger > 1
    /\ call_count = 2 * n_trigger
    /\ legacy.sympy.calls = call_count /\ legacy.td.calls = call_count
    /\ legacy.sympy.fired = {n_trigger, 2 * n_trigger}
    /\ legacy.td.fired = fired_calls
    /\ finished_steps = 2

\* C19: the unbiased potential is only read: no construction and no
\* check_for_metastep of any of the three classes changes it, and a
\* check_for_metastep on one potential leaves the other potentials that are
\* built on the same unbiased potential as they were.
C19_BaseOnlyRead ==
    [][/\ orig' = orig
       /\ call_count' # call_count => legacy' = legacy
       /\ legacy'.sympy.calls # legacy.sympy.calls =>
             UNCHANGED <<pc, obj>> /\ legacy'.td = legacy.td
       /\ legacy'.td.calls # legacy.td.calls =>
             UNCHANGED <<pc, obj>> /\ legacy'.sympy = legacy.sympy]_vars

C19_Witness ==
    /\ ProperlyConfigured
    /\ finished_steps > 0
    /\ legacy.sympy.finished_steps > finished_steps
    /\ legacy.td.V.added > 0 /\ legacy.td.calls < call_count
    /\ orig = orig_init

\* a step is a call of check_for_metastep, and the call added a Gaussian
IsCall == pc = "ready" /\ call_count' = call_count + 1

CallFired == call_count' \in fired_calls'

\* C15 as stated: the counter is incremented first and the incremented value
\* is compared with n_trigger: a Gaussian is added (and the counter reset to
\* 1) on exactly the calls where current_n + 1 = n_trigger, and on all other
\* calls the counter is only incremented (stated for properly configured
\* potentials, where it already fails).
C15_IncrementThenCompare ==
    [][(IsCall /\ ProperlyConfigured) =>
          /\ CallFired <=> (current_n + 1 = n_trigger)
          /\ CallFired => current_n' = 1
          /\ ~CallFired => current_n' = current_n + 1]_vars

\* C15 as amended: the counter is compared before any increment: a Gaussian
\* is added (and the counter reset to 1) on exactly the calls where the value
\* of current_n before the call is a multiple of n_trigger (for
\* n_trigger > 0: equals n_trigger), and on all other calls the counter is
\* only incremented; with n_trigger = 0 the comparison raises and the counter
\* stays as it is.
C15_CompareThenIncrement ==
    [][IsCall =>
          /\ CallFired <=>
                (n_trigger # 0 /\ \E k \in -(MaxCalls + 1) .. MaxCalls + 1 :
                                      current_n = k * n_trigger)
          /\ (CallFired /\ n_trigger > 0) => current_n = n_trigger
          /\ CallFired => current_n' = 1
          /\ (~CallFired /\ n_trigger # 0) =>
                /\ current_n' = current_n + 1
                /\ UNCHANGED <<bias_grid_energy, bias_grid_force, finished_steps>>
          /\ n_trigger = 0 =>
                current_n' = current_n /\ result'.kind = "ZeroDivisionError"]_vars

C15_Witness ==
    /\ ProperlyConfigured /\ n_trigger >= 2
    /\ op = "check_for_metastep"
    /\ call_count \in fired_calls /\ call_count = 2 * n_trigger
    /\ current_n = 1

\* C16: a call of check_for_metastep that adds no Gaussian changes nothing
\* but the counter, whatever position it was given; a call that adds one adds
\* exactly one Gaussian of the configured amplitude and sigma, centered at
\* the position of that call, to both grids, increments finished_steps by 1
\* and sets the counter to 1.
C16_CallEffects ==
    [][IsCall =>
          /\ UNCHANGED <<n_trigger, amplitude, sigma, bin_centers>>
          /\ ~CallFired =>
                /\ UNCHANGED <<bias_grid_energy, bias_grid_force,
                               finished_steps, deposited>>
                /\ current_n' \in {current_n, current_n + 1}
          /\ CallFired =>
                /\ \E p \in StepPositions :
                      /\ deposited' = [deposited EXCEPT ![p] = @ + 1]
                      /\ \A i \in 1 .. Len(bin_centers) :
                            /\ bias_grid_energy'[i] = bias_grid_energy[i]
                                  + gaussV(amplitude, p, sigma, bin_centers[i])
                            /\ bias_grid_force'[i] = bias_grid_force[i]
                                  + gaussdVdpos(amplitude, p, sigma, bin_centers[i])
                /\ finished_steps' = finished_steps + 1
                /\ current_n' = 1]_vars

C16_Witness ==
    /\ ProperlyConfigured
    /\ op = "check_for_metastep" /\ call_count \in fired_calls
    /\ finished_steps >= 2
    /\ deposited[9] > 0 /\ deposited[1] > 0
    /\ \E i \in 1 .. Len(bin_centers) : bias_grid_force[i] # 0

\* the index arithmetic floor((x - lower) / bin_width), clamped to
\* [0, numbins - 1], with bin_width = (upper - lower) / numbins, in doubles
direct_index(g, value) ==
    LET bin_width == fdiv(fromInt(g.hi - g.lo), fromInt(g.numbins))
        raw == ffloor(fdiv(fsub(value, fromInt(g.lo)), bin_width))
    IN  IF raw < 0 THEN 0
        ELSE IF raw > g.numbins - 1 THEN g.numbins - 1
        ELSE raw

\* the double value lies within 2^-40 of a bin width of the boundary
\* lo + k * w between the bins k - 1 and k (compared without rounding:
\* |numbins * value - (numbins * lo + k * (hi - lo))| * 2^40 <= hi - lo)
AtBoundary(g, value, k) ==
    LET scaled == [value EXCEPT !.m = BMulSmall(value.m, g.numbins)]
        off == xadd(scaled, fneg(fromInt(g.numbins * g.lo + k * (g.hi - g.lo))))
    IN  \/ off.m = <<>>
        \/ fcmp([s |-> 1, m |-> off.m, e |-> off.e + 40],
                fromInt(g.hi - g.lo)) <= 0

\* the value is a whole number, and so is the half bin width of the grid
WholeNumbers(g, value) ==
    /\ (g.hi - g.lo) % (2 * g.numbins) = 0
    /\ value.e >= 0

\* C17 as stated: for every position the index arithmetic returns the index
\* that _find_nearest returned.
C17_DirectIndexIsNearest ==
    lookup.at = "asked" =>
        lookup.nearest = direct_index(lookup.g, lookup.value)

\* C17 as amended: the two indices are equal for every position that is not
\* on a boundary between two bins, positions outside of the grid included;
\* for a position on a boundary (up to rounding) they are the two bins at
\* that boundary, so they differ by at most 1, in either direction; on a
\* boundary too they are equal when the position and the half bin width
\* are whole numbers, where no operation rounds.
C17_DirectIndexNearestOffBoundaries ==
    lookup.at = "asked" =>
        LET nearest == lookup.nearest
            direct == direct_index(lookup.g, lookup.value)
        IN  /\ nearest - direct \in {-1, 0, 1}
            /\ nearest # direct =>
                  AtBoundary(lookup.g, lookup.value,
                             IF nearest > direct THEN nearest ELSE direct)
            /\ WholeNumbers(lookup.g, lookup.value) => nearest = direct

C17_Witness ==
    /\ lookup.at = "asked"
    /\ lookup.g = [lo |-> 0, hi |-> 10, numbins |-> 100]
    /\ lookup.x = [n |-> 30, d |-> 100]
    /\ lookup.nearest = 3
    /\ direct_index(lookup.g, lookup.value) = 2

\* C18: on a grid built from valid arguments the centers are
\* c_i = lower + w * (i + 0.5), i = 0 .. numbins - 1, with
\* w = (upper - lower) / numbins (stated without fractions), they strictly
\* increase, none of them is one of the two bounds, and no operation on the
\* constructed potential changes them, nor n_trigger, amplitude or sigma.
C18_CentersFixed ==
    /\ [](pc = "ready" /\ ValidGrid =>
            /\ Len(bin_centers) = grid_args.numbins
            /\ \A i \in 1 .. grid_args.numbins :
                  /\ 2 * grid_args.numbins * bin_centers[i]
                        = 2 * grid_args.numbins * grid_args.lo
                          + (grid_args.hi - grid_args.lo) * (2 * (i - 1) + 1)
                  /\ bin_centers[i] # grid_args.lo
                  /\ bin_centers[i] # grid_args.hi
            /\ \A i \in 1 .. grid_args.numbins - 1 :
                  bin_centers[i] < bin_centers[i + 1])
    /\ [][pc = "ready" =>
            UNCHANGED <<bin_centers, n_trigger, amplitude, sigma, grid_args>>]_vars

C18_Witness ==
    /\ pc = "ready" /\ ValidGrid
    /\ bin_centers = <<1, 3, 5, 7>>
    /\ finished_steps > 1
    /\ op = "force"
    /\ \E i \in 1 .. 4 : bias_grid_energy[i] # 0

\* C20: after set_current_state the system holds the velocities and the
\* force it was given, in its fields and in its current state, as it does
\* after append_state.
C20_StateStored ==
    system.call \in {"set_current_state", "append_state"} =>
        /\ system._currentVelocities = system.args.velocity
        /\ system._currentForce = system.args.force
        /\ system._currentState.velocity = system.args.velocity
        /\ system._currentState.dhdpos = system.args.force

\* C21: whatever operations were made on the perturbed system, the lambda it
\* holds is the lambda last handed to potential.set_lambda, the current
\* state built by the last call records that lambda, and the potential
\* energy it holds is the one of the potential at that lambda.
C21_LambdaInSync ==
    system.phase = "ready" =>
        /\ system._currentLambda = system.potential_lam
        /\ system.call # "set_lambda" =>
              system._currentState.lam = system.potential_lam
        /\ system._currentTotPot =
              potential_ene(system._currentLambda, system._currentPosition)

====
